---- MODULE Spec2Model ----
(***************************************************************************)
(* Model of src/app.py: the sales dashboard of painel-vendas.              *)
(*                                                                         *)
(* Text is a sequence of one-character strings.  Money is an integer       *)
(* number of cents (the ledger's amounts have two decimals); a percentage  *)
(* is an exact fraction <<num, den>> in lowest terms, None is <<>>.        *)
(* A date is a record [year, month, day] of the proleptic Gregorian        *)
(* calendar, as datetime.date.                                             *)
(***************************************************************************)
EXTENDS Integers, Sequences, FiniteSets, TLC

VARIABLES pc, ref, sheet, df, error, loc, top_dias, top_clientes,
          fn_in, fn_txt, fn_out

vars == <<pc, ref, sheet, df, error, loc, top_dias, top_clientes,
          fn_in, fn_txt, fn_out>>

(***************************************************************************)
(* Bounds of the model.                                                    *)
(***************************************************************************)
FirstYear == 2023
NumYears == 3
MaxRows == 3
MaxBrlSmall == 40

(***************************************************************************)
(* datetime.date                                                           *)
(***************************************************************************)
MINYEAR == 1
MAXYEAR == 9999

ValueError == [year |-> 0, month |-> 0, day |-> 0]

IsLeap(y) == (y % 4 = 0) /\ ((y % 100 # 0) \/ (y % 400 = 0))

DaysInMonth(y, m) ==
    IF m = 2 THEN (IF IsLeap(y) THEN 29 ELSE 28)
    ELSE IF m \in {4, 6, 9, 11} THEN 30 ELSE 31

ValidDate(y, m, d) ==
    /\ y >= MINYEAR /\ y <= MAXYEAR
    /\ m >= 1 /\ m <= 12
    /\ d >= 1 /\ d <= DaysInMonth(y, m)

\* date(y, m, d): the date, or ValueError when the fields name no day.
Date(y, m, d) ==
    IF ValidDate(y, m, d) THEN [year |-> y, month |-> m, day |-> d]
    ELSE ValueError

DaysBeforeYear(y) ==
    (y - 1) * 365 + ((y - 1) \div 4) - ((y - 1) \div 100) + ((y - 1) \div 400)

RECURSIVE DaysBeforeMonth(_, _)
DaysBeforeMonth(y, m) ==
    IF m <= 1 THEN 0 ELSE DaysBeforeMonth(y, m - 1) + DaysInMonth(y, m - 1)

toordinal(d) == DaysBeforeYear(d.year) + DaysBeforeMonth(d.year, d.month) + d.day

fromordinal(n) ==
    LET y == CHOOSE yy \in ((n \div 366) .. ((n \div 365) + 1)) :
                 DaysBeforeYear(yy) < n /\ n <= DaysBeforeYear(yy + 1)
        r == n - DaysBeforeYear(y)
        m == CHOOSE mm \in 1..12 :
                 DaysBeforeMonth(y, mm) < r
                 /\ r <= DaysBeforeMonth(y, mm) + DaysInMonth(y, mm)
    IN  [year |-> y, month |-> m, day |-> r - DaysBeforeMonth(y, m)]

\* d + timedelta(days=k)
AddDays(d, k) == fromordinal(toordinal(d) + k)

DateLE(a, b) == toordinal(a) <= toordinal(b)

Max(a, b) == IF a >= b THEN a ELSE b
Min(a, b) == IF a <= b THEN a ELSE b

(***************************************************************************)
(* Date helpers of app.py                                                  *)
(***************************************************************************)
month_start(d) == [d EXCEPT !.day = 1]

\* add_months without the carry into the year
add_months_noCarry(d, months) ==
    LET m == ((d.month - 1 + months) % 12) + 1
        day == Min(d.day, 28)
    IN  Date(d.year, m, day)

add_months(d, months) ==
    LET y == d.year + ((d.month - 1 + months) \div 12)
        m == ((d.month - 1 + months) % 12) + 1
        day == Min(d.day, 28)
    IN  Date(y, m, day)

\* safe_last_year falling forward to 1 March
safe_last_year_march(d) ==
    LET t == Date(d.year - 1, d.month, d.day)
    IN  IF t # ValueError THEN t
        ELSE Date(d.year - 1, d.month + 1, 1)

safe_last_year(d) ==
    LET t == Date(d.year - 1, d.month, d.day)
    IN  IF t # ValueError THEN t
        ELSE Date(d.year - 1, d.month, 28)

(***************************************************************************)
(* Text                                                                    *)
(***************************************************************************)
Digits == <<"0", "1", "2", "3", "4", "5", "6", "7", "8", "9">>

IsDigit(c) == \E i \in 1..10 : Digits[i] = c

DigitVal(c) == (CHOOSE i \in 1..10 : Digits[i] = c) - 1

IsSpace(c) == c = " "

RECURSIVE lstrip(_)
lstrip(s) ==
    IF s # <<>> /\ IsSpace(Head(s)) THEN lstrip(Tail(s)) ELSE s

RECURSIVE rstrip(_)
rstrip(s) ==
    IF s # <<>> /\ IsSpace(s[Len(s)]) THEN rstrip(SubSeq(s, 1, Len(s) - 1)) ELSE s

\* str.strip()
strip(s) == rstrip(lstrip(s))

\* str.replace(c, r) for a one-character pattern c and a text r
RECURSIVE replace(_, _, _)
replace(s, c, r) ==
    IF s = <<>> THEN <<>>
    ELSE (IF Head(s) = c THEN r ELSE <<Head(s)>>) \o replace(Tail(s), c, r)

\* re.sub("R$", "", s): in a regular expression $ is the end of the text, so
\* the pattern is an R that ends the text.
sub_R_end(s) ==
    IF s # <<>> /\ s[Len(s)] = "R" THEN SubSeq(s, 1, Len(s) - 1) ELSE s

\* str.upper() on the ASCII letters
Lower == <<"a", "b", "c", "d", "e", "f", "g", "h", "i", "j", "k", "l", "m", "n", "o", "p", "q", "r", "s", "t", "u", "v", "w", "x", "y", "z">>
Upper == <<"A", "B", "C", "D", "E", "F", "G", "H", "I", "J", "K", "L", "M", "N", "O", "P", "Q", "R", "S", "T", "U", "V", "W", "X", "Y", "Z">>

upper_char(c) ==
    IF \E i \in 1..Len(Lower) : Lower[i] = c
    THEN Upper[CHOOSE i \in 1..Len(Lower) : Lower[i] = c]
    ELSE c

upper(s) == [i \in 1..Len(s) |-> upper_char(s[i])]

\* str.contains(pat) with a literal pattern
contains(s, pat) ==
    \E i \in 1..(Len(s) - Len(pat) + 1) : SubSeq(s, i, i + Len(pat) - 1) = pat

\* the characters of the model's texts in code point order
Alphabet == <<" ", "$", "(", ")", "+", ",", "-", ".", "/", "0", "1", "2", "3", "4", "5", "6", "7", "8", "9", "A", "B", "C", "D", "E", "F", "G", "H", "I", "J", "K", "L", "M", "N", "O", "P", "Q", "R", "S", "T", "U", "V", "W", "X", "Y", "Z", "a", "b", "c", "d", "e", "f", "g", "h", "i", "j", "k", "l", "m", "n", "o", "p", "q", "r", "s", "t", "u", "v", "w", "x", "y", "z">>

Code(c) == CHOOSE i \in 1..Len(Alphabet) : Alphabet[i] = c

\* a < b for two texts (str comparison)
RECURSIVE TextLess(_, _)
TextLess(a, b) ==
    IF b = <<>> THEN FALSE
    ELSE IF a = <<>> THEN TRUE
    ELSE IF Head(a) # Head(b) THEN Code(Head(a)) < Code(Head(b))
    ELSE TextLess(Tail(a), Tail(b))

RECURSIVE ParseInt(_)
ParseInt(s) ==
    IF s = <<>> THEN 0
    ELSE ParseInt(SubSeq(s, 1, Len(s) - 1)) * 10 + DigitVal(s[Len(s)])

AllDigits(s) == s # <<>> /\ \A i \in 1..Len(s) : IsDigit(s[i])

RECURSIVE IntToText(_)
IntToText(n) ==
    IF n < 10 THEN <<Digits[n + 1]>>
    ELSE IntToText(n \div 10) \o <<Digits[(n % 10) + 1]>>

(***************************************************************************)
(* Module constants of app.py                                              *)
(***************************************************************************)
COL_DATA == <<"E", "m", "i", "s", "s", "a", "o">>
COL_VALOR == <<"T", "o", "t", "a", "l", " ", "N", "o", "t", "a">>
COL_CLIENTE == <<"C", "l", "i", "e", "n", "t", "e">>

(***************************************************************************)
(* to_brl                                                                  *)
(***************************************************************************)
\* the ',' grouping of the format specification ",.2f" on the integer digits
RECURSIVE GroupThousands(_)
GroupThousands(ds) ==
    IF Len(ds) <= 3 THEN ds
    ELSE GroupThousands(SubSeq(ds, 1, Len(ds) - 3)) \o <<",">>
         \o SubSeq(ds, Len(ds) - 2, Len(ds))

\* f"{float(v):,.2f}" for v in cents
Format_comma_2f(v) ==
    LET a == IF v < 0 THEN -v ELSE v
        cs == a % 100
    IN  (IF v < 0 THEN <<"-">> ELSE <<>>)
        \o GroupThousands(IntToText(a \div 100))
        \o <<".">> \o <<Digits[(cs \div 10) + 1], Digits[(cs % 10) + 1]>>

\* v is a number at every call of the handler (never None)
to_brl(v) ==
    LET s == Format_comma_2f(v)
    IN  <<"R", "$", " ">>
        \o replace(replace(replace(s, ",", <<"X">>), ".", <<",">>), "X", <<".">>)

(***************************************************************************)
(* read_sheet                                                              *)
(***************************************************************************)
\* pd.to_numeric(text, errors="coerce") on a text of digits, sign and point:
\* the number in cents, or NaN.  The texts of the model carry at most two
\* fraction digits.
NumSplit(t) ==
    LET u == IF t # <<>> /\ t[1] \in {"-", "+"} THEN Tail(t) ELSE t
        p == IF \E i \in 1..Len(u) : u[i] = "."
             THEN CHOOSE i \in 1..Len(u) :
                      u[i] = "." /\ \A j \in 1..(i - 1) : u[j] # "."
             ELSE Len(u) + 1
    IN  [neg |-> t # <<>> /\ t[1] = "-",
         int |-> SubSeq(u, 1, p - 1),
         frac |-> SubSeq(u, p + 1, Len(u))]

IsNumeric(t) ==
    LET n == NumSplit(t)
    IN  /\ \A i \in 1..Len(n.int) : IsDigit(n.int[i])
        /\ \A i \in 1..Len(n.frac) : IsDigit(n.frac[i])
        /\ Len(n.int) + Len(n.frac) > 0

to_numeric(t) ==
    IF ~IsNumeric(t) THEN [nan |-> TRUE, v |-> 0]
    ELSE LET n == NumSplit(t)
             f2 == SubSeq(n.frac \o <<"0", "0">>, 1, 2)
             a == ParseInt(n.int) * 100 + ParseInt(f2)
         IN  [nan |-> FALSE, v |-> IF n.neg THEN -a ELSE a]

\* lines 49-55: the monetary text of one cell to its amount
parse_valor(cell) ==
    LET val0 == strip(cell)
        val1 == replace(sub_R_end(val0), " ", <<>>)
        val2 == replace(val1, ".", <<>>)
        val3 == replace(val2, ",", <<".">>)
        n == to_numeric(val3)
    IN  IF n.nan THEN 0 ELSE n.v

\* pd.to_datetime(text, errors="coerce", dayfirst=True) on the two layouts the
\* sheet uses, dd/mm/yyyy and yyyy-mm-dd; any other text is NaT.
NaT == ValueError

to_datetime(t) ==
    IF Len(t) = 10 /\ t[3] = "/" /\ t[6] = "/"
       /\ AllDigits(SubSeq(t, 1, 2)) /\ AllDigits(SubSeq(t, 4, 5))
       /\ AllDigits(SubSeq(t, 7, 10))
    THEN Date(ParseInt(SubSeq(t, 7, 10)), ParseInt(SubSeq(t, 4, 5)),
              ParseInt(SubSeq(t, 1, 2)))
    ELSE IF Len(t) = 10 /\ t[5] = "-" /\ t[8] = "-"
            /\ AllDigits(SubSeq(t, 1, 4)) /\ AllDigits(SubSeq(t, 6, 7))
            /\ AllDigits(SubSeq(t, 9, 10))
    THEN Date(ParseInt(SubSeq(t, 1, 4)), ParseInt(SubSeq(t, 6, 7)),
              ParseInt(SubSeq(t, 9, 10)))
    ELSE NaT

HasColumn(cols, name) == \E i \in 1..Len(cols) : cols[i] = name

ColumnIndex(cols, name) == CHOOSE i \in 1..Len(cols) : cols[i] = name

\* the column names as published, blanks kept
StripColumns_raw(cols) == cols

\* line 30
StripColumns(cols) == [i \in 1..Len(cols) |-> strip(cols[i])]

\* lines 32-43: the first missing column, in the order the code tests them
MissingColumn(cols) ==
    IF ~HasColumn(cols, COL_DATA) THEN COL_DATA
    ELSE IF ~HasColumn(cols, COL_VALOR) THEN COL_VALOR
    ELSE IF ~HasColumn(cols, COL_CLIENTE) THEN COL_CLIENTE
    ELSE <<>>

\* lines 46-58: the typed row of one source row
ConvertRow(cols, row) ==
    [data |-> to_datetime(row[ColumnIndex(cols, COL_DATA)]),
     valor |-> parse_valor(row[ColumnIndex(cols, COL_VALOR)]),
     cliente |-> strip(row[ColumnIndex(cols, COL_CLIENTE)])]

\* no row dropped
DropNaT_keepAll(rows) == rows

\* line 61
RECURSIVE DropNaT(_)
DropNaT(rows) ==
    IF rows = <<>> THEN <<>>
    ELSE (IF Head(rows).data # NaT THEN <<Head(rows)>> ELSE <<>>)
         \o DropNaT(Tail(rows))

read_sheet(sh) ==
    LET cols == StripColumns(sh.columns)
        miss == MissingColumn(cols)
    IN  IF miss # <<>>
        THEN [raised |-> TRUE,
              exc |-> [missing |-> miss, available |-> cols],
              df |-> <<>>]
        ELSE [raised |-> FALSE,
              exc |-> [missing |-> <<>>, available |-> <<>>],
              df |-> DropNaT([i \in 1..Len(sh.rows) |->
                                 ConvertRow(cols, sh.rows[i])])]

(***************************************************************************)
(* pct                                                                     *)
(***************************************************************************)
None == <<>>

RECURSIVE GCD(_, _)
GCD(a, b) == IF b = 0 THEN a ELSE GCD(b, a % b)

Abs(x) == IF x < 0 THEN -x ELSE x

\* the fraction n/d, d > 0, in lowest terms
Frac(n, d) ==
    LET g == GCD(Abs(n), d)
    IN  <<n \div g, d \div g>>

\* pct giving -100 for a negative value against a zero base
pct_signed(a, b) ==
    IF b = 0 THEN (IF a = 0 THEN None
                   ELSE IF a < 0 THEN Frac(-100, 1) ELSE Frac(100, 1))
    ELSE IF b > 0 THEN Frac(100 * (a - b), b)
    ELSE Frac(-(100 * (a - b)), -b)

\* (a / b - 1) * 100.0 = 100 (a - b) / b
pct(a, b) ==
    IF b = 0 THEN (IF a = 0 THEN None ELSE Frac(100, 1))
    ELSE IF b > 0 THEN Frac(100 * (a - b), b)
    ELSE Frac(-(100 * (a - b)), -b)

(***************************************************************************)
(* dashboard: aggregation over the ledger                                  *)
(***************************************************************************)
TopN == 5

\* df.loc[df["data"] == d, COL_VALOR].sum()
RECURSIVE SumOn(_, _)
SumOn(rows, d) ==
    IF rows = <<>> THEN 0
    ELSE (IF Head(rows).data = d THEN Head(rows).valor ELSE 0)
         + SumOn(Tail(rows), d)

\* a window that leaves out its last day
InRange_openEnd(d, lo, hi) == DateLE(lo, d) /\ toordinal(d) < toordinal(hi)

InRange(d, lo, hi) == DateLE(lo, d) /\ DateLE(d, hi)

\* df[(df["data"] >= lo) & (df["data"] <= hi)]
RECURSIVE Between(_, _, _)
Between(rows, lo, hi) ==
    IF rows = <<>> THEN <<>>
    ELSE (IF InRange(Head(rows).data, lo, hi) THEN <<Head(rows)>> ELSE <<>>)
         \o Between(Tail(rows), lo, hi)

RECURSIVE Sum(_)
Sum(rows) == IF rows = <<>> THEN 0 ELSE Head(rows).valor + Sum(Tail(rows))

\* df.loc[(df["data"] >= lo) & (df["data"] <= hi), COL_VALOR].sum()
SumBetween(rows, lo, hi) == Sum(Between(rows, lo, hi))

\* lines 175-177: rows with a customer that is neither blank nor generic
CONSUMIDOR_FINAL ==
    <<"C", "O", "N", "S", "U", "M", "I", "D", "O", "R", " ",
      "F", "I", "N", "A", "L">>

\* the generic marker matched in the case it is written
KeepCliente_caseSensitive(c) ==
    strip(c) # <<>> /\ ~contains(c, CONSUMIDOR_FINAL)

KeepCliente(c) == strip(c) # <<>> /\ ~contains(upper(c), CONSUMIDOR_FINAL)

RECURSIVE FilterClientes(_)
FilterClientes(rows) ==
    IF rows = <<>> THEN <<>>
    ELSE (IF KeepCliente(Head(rows).cliente) THEN <<Head(rows)>> ELSE <<>>)
         \o FilterClientes(Tail(rows))

\* groupby(...) orders the groups by key
RECURSIVE SortedDates(_)
SortedDates(S) ==
    IF S = {} THEN <<>>
    ELSE LET m == CHOOSE x \in S : \A y \in S : DateLE(x, y)
         IN  <<m>> \o SortedDates(S \ {m})

RECURSIVE SortedTexts(_)
SortedTexts(S) ==
    IF S = {} THEN <<>>
    ELSE LET m == CHOOSE x \in S : \A y \in S : x = y \/ TextLess(x, y)
         IN  <<m>> \o SortedTexts(S \ {m})

RECURSIVE SumCliente(_, _)
SumCliente(rows, c) ==
    IF rows = <<>> THEN 0
    ELSE (IF Head(rows).cliente = c THEN Head(rows).valor ELSE 0)
         + SumCliente(Tail(rows), c)

\* df_mes.groupby("data")[COL_VALOR].sum()
groupby_data(rows) ==
    LET keys == SortedDates({rows[i].data : i \in 1..Len(rows)})
    IN  [i \in 1..Len(keys) |-> [key |-> keys[i], valor |-> SumOn(rows, keys[i])]]

\* df_cli.groupby(COL_CLIENTE)[COL_VALOR].sum()
groupby_cliente(rows) ==
    LET keys == SortedTexts({rows[i].cliente : i \in 1..Len(rows)})
    IN  [i \in 1..Len(keys) |->
            [key |-> keys[i], valor |-> SumCliente(rows, keys[i])]]

\* sort_values(ascending=False): the default sort kind is "quicksort", which
\* is not a stable sort, so groups with equal sums come out in any order.
RECURSIVE Orders(_, _)
Orders(g, S) ==
    IF S = {} THEN {<<>>}
    ELSE UNION {{<<g[i]>> \o r : r \in Orders(g, S \ {i})} :
                  i \in {k \in S : \A j \in S : g[j].valor <= g[k].valor}}

sort_values(g) == Orders(g, DOMAIN g)

\* head(5)
head(s) == SubSeq(s, 1, Min(TopN, Len(s)))

\* lines 118-159: everything the handler computes before the rankings
Locals(r, d) ==
    LET hoje == r
        ontem == AddDays(r, -1)
        ano_ant == safe_last_year(r)
        ano_ant_dia_seguinte == AddDays(ano_ant, 1)
        v_hoje == SumOn(d, hoje)
        v_ontem == SumOn(d, ontem)
        v_ano_ant == SumOn(d, ano_ant)
        v_ano_ant_dia_seguinte == SumOn(d, ano_ant_dia_seguinte)
        ini_mes == month_start(r)
        ini_mes_ant == month_start(add_months(r, -1))
        fim_atual == r
        fim_mes_ant == AddDays(ini_mes_ant, Max(r.day - 1, 0))
        v_mes_atual == SumBetween(d, ini_mes, fim_atual)
        v_mes_ant_proporcional == SumBetween(d, ini_mes_ant, fim_mes_ant)
        ini_mes_ano_ant == Date(r.year - 1, r.month, 1)
        fim_mes_ano_ant == AddDays(ini_mes_ano_ant, Max(r.day - 1, 0))
        v_mes_ano_ant == SumBetween(d, ini_mes_ano_ant, fim_mes_ano_ant)
        df_mes == Between(d, ini_mes, fim_atual)
    IN  [hoje |-> hoje, ontem |-> ontem, ano_ant |-> ano_ant,
         ano_ant_dia_seguinte |-> ano_ant_dia_seguinte,
         v_hoje |-> v_hoje, v_ontem |-> v_ontem, v_ano_ant |-> v_ano_ant,
         v_ano_ant_dia_seguinte |-> v_ano_ant_dia_seguinte,
         pct_dia |-> pct(v_hoje, v_ontem),
         pct_ano |-> pct(v_hoje, v_ano_ant),
         pct_ano_dia_seguinte |-> pct(v_hoje, v_ano_ant_dia_seguinte),
         ini_mes |-> ini_mes, ini_mes_ant |-> ini_mes_ant,
         fim_atual |-> fim_atual, fim_mes_ant |-> fim_mes_ant,
         v_mes_atual |-> v_mes_atual,
         v_mes_ant_proporcional |-> v_mes_ant_proporcional,
         pct_mes |-> pct(v_mes_atual, v_mes_ant_proporcional),
         ini_mes_ano_ant |-> ini_mes_ano_ant,
         fim_mes_ano_ant |-> fim_mes_ano_ant,
         v_mes_ano_ant |-> v_mes_ano_ant,
         pct_mes_ano_ant |-> pct(v_mes_atual, v_mes_ano_ant),
         df_mes |-> df_mes,
         df_cli |-> FilterClientes(df_mes)]

\* lines 169-170, 188: the entries handed to the template
TopEntries(s) ==
    [i \in 1..Len(s) |->
        [key |-> s[i].key, valor |-> s[i].valor, valor_fmt |-> to_brl(s[i].valor)]]

NoError == [missing |-> <<>>, available |-> <<>>]

\* GET /: the whole handler for the reference date ref and the published sheet
Dashboard ==
    /\ pc = "request"
    /\ LET rs == read_sheet(sheet)
       IN  IF rs.raised
           THEN /\ pc' = "error"
                /\ error' = rs.exc
                /\ UNCHANGED <<df, loc, top_dias, top_clientes>>
           ELSE LET l == Locals(ref, rs.df)
                IN  /\ pc' = "done"
                    /\ df' = rs.df
                    /\ loc' = l
                    /\ \E td \in sort_values(groupby_data(l.df_mes)) :
                           top_dias' = TopEntries(head(td))
                    /\ \E tc \in sort_values(groupby_cliente(l.df_cli)) :
                           top_clientes' = TopEntries(head(tc))
                    /\ UNCHANGED error
    /\ UNCHANGED <<ref, sheet, fn_in, fn_txt, fn_out>>

Next == Dashboard

(***************************************************************************)
(* Inputs: reference dates and published sheets                            *)
(***************************************************************************)
Pad2(n) == IF n < 10 THEN <<"0">> \o IntToText(n) ELSE IntToText(n)

\* a date written dd/mm/yyyy and yyyy-mm-dd
DMY(d) == Pad2(d.day) \o <<"/">> \o Pad2(d.month) \o <<"/">> \o IntToText(d.year)
ISO(d) == IntToText(d.year) \o <<"-">> \o Pad2(d.month) \o <<"-">> \o Pad2(d.day)

Day(y, m, d) == [year |-> y, month |-> m, day |-> d]

Years == FirstYear .. (FirstYear + NumYears - 1)

AllDates ==
    {x \in {Day(y, m, d) : y \in Years, m \in 1..12, d \in 1..31} :
        ValidDate(x.year, x.month, x.day)}

\* headers as published: names carry stray blanks, columns come in any order
H_full == <<<<" ", "E", "m", "i", "s", "s", "a", "o">>, <<"T", "o", "t", "a", "l", " ", "N", "o", "t", "a", " ">>, <<"C", "l", "i", "e", "n", "t", "e">>>>
H_reordered == <<<<"C", "l", "i", "e", "n", "t", "e">>, <<"N", "F">>, <<"T", "o", "t", "a", "l", " ", "N", "o", "t", "a">>, <<" ", " ", "E", "m", "i", "s", "s", "a", "o", " ">>>>
H_noData == <<<<"N", "F">>, <<"T", "o", "t", "a", "l", " ", "N", "o", "t", "a">>, <<"C", "l", "i", "e", "n", "t", "e">>>>
H_noValor == <<<<"E", "m", "i", "s", "s", "a", "o">>, <<" ", "C", "l", "i", "e", "n", "t", "e", " ">>>>
H_noCliente == <<<<"E", "m", "i", "s", "s", "a", "o">>, <<"T", "o", "t", "a", "l", " ", "N", "o", "t", "a">>, <<"N", "F">>>>
H_noDataValor == <<<<"C", "l", "i", "e", "n", "t", "e", " ">>, <<"N", "F">>>>
H_noValorCliente == <<<<" ", "E", "m", "i", "s", "s", "a", "o">>>>
H_none == <<<<"N", "F">>, <<"e", "m", "i", "s", "s", "a", "o">>>>

BadHeaders ==
    {H_noData, H_noValor, H_noCliente, H_noDataValor, H_noValorCliente, H_none}

T_filler == <<"7">>

\* the cells of one source row under a header, from its three texts
MkRow(h, t) ==
    [i \in 1..Len(h) |->
        IF strip(h[i]) = COL_DATA THEN t[1]
        ELSE IF strip(h[i]) = COL_VALOR THEN t[2]
        ELSE IF strip(h[i]) = COL_CLIENTE THEN t[3]
        ELSE T_filler]

MkSheet(h, ts) ==
    [columns |-> h, rows |-> [i \in 1..Len(ts) |-> MkRow(h, ts[i])]]

V_100 == <<"1", "0", "0", ",", "0", "0">>
V_150 == <<"1", "5", "0", ",", "0", "0">>
V_50 == <<" ", "5", "0", ",", "0", "0", " ">>
V_300 == <<"3", "0", "0">>
V_1234_56 == <<"1", ".", "2", "3", "4", ",", "5", "6">>
V_neg == <<"-", "5", "0", ",", "0", "0">>
V_bad == <<"a", "b", "c">>
V_prefixed == <<"R", "$", " ", "1", "0", ",", "0", "0">>
V_empty == <<>>

C_Ana == <<"A", "n", "a">>
C_Bia == <<" ", "B", "i", "a", " ">>
C_Caio == <<"C", "a", "i", "o">>
C_Davi == <<"D", "a", "v", "i">>
C_Eva == <<"E", "v", "a">>
C_Fabio == <<"F", "a", "b", "i", "o">>
C_Gil == <<"G", "i", "l">>
C_CF_loja == <<"C", "o", "n", "s", "u", "m", "i", "d", "o", "r", " ", "F", "i", "n", "a", "l", " ", "(", "l", "o", "j", "a", ")">>
C_CF_upper == <<"C", "O", "N", "S", "U", "M", "I", "D", "O", "R", " ", "F", "I", "N", "A", "L">>
C_Consumidor == <<"C", "o", "n", "s", "u", "m", "i", "d", "o", "r">>
C_blank == <<" ", " ">>
C_empty == <<>>

D_bad == <<"3", "1", "/", "0", "2", "/", "2", "0", "2", "5">>
D_empty == <<>>

InitCommon ==
    /\ pc = "request"
    /\ df = <<>>
    /\ error = NoError
    /\ loc = <<>>
    /\ top_dias = <<>>
    /\ top_clientes = <<>>
    /\ fn_in = 0
    /\ fn_txt = <<>>
    /\ fn_out = 0

\* Calendar family: every reference date of the years of the model, against a
\* sheet with one row on a day near a window boundary.
CalOffsetsMonth == {0, 1, 2}
CalOffsetsRef == {-366, -365, -364}

CalSheets(r) ==
    {MkSheet(H_full, <<<<DMY(AddDays(month_start(r), k)), V_100, C_Ana>>>>) :
        k \in CalOffsetsMonth}
    \cup {MkSheet(H_reordered, <<<<ISO(AddDays(r, k)), V_150, C_Bia>>>>) :
        k \in CalOffsetsRef}
    \cup {MkSheet(H_noValor, <<>>)}

InitCal ==
    /\ InitCommon
    /\ ref \in AllDates
    /\ sheet \in CalSheets(ref)

SpecCal == InitCal /\ [][Next]_vars

\* Ledger family: two reference dates against every sheet of at most MaxRows
\* rows drawn from rows on and around the days and windows of the dashboard,
\* with unusable dates and amounts among them; and every incomplete header.
LedgerRefs == {Day(2025, 3, 15), Day(2024, 2, 29)}

LedgerRows(r) ==
    {<<DMY(r), V_150, C_Ana>>,
     <<ISO(r), V_neg, C_CF_loja>>,
     <<DMY(r), V_50, C_Bia>>,
     <<DMY(r), V_bad, C_Ana>>,
     <<DMY(AddDays(r, -1)), V_100, C_Bia>>,
     <<D_bad, V_100, C_Ana>>,
     <<DMY(AddDays(r, -365)), V_50, C_blank>>,
     <<ISO(AddDays(r, -366)), V_300, C_Caio>>,
     <<DMY(Day(r.year, r.month - 1, 2)), V_100, C_Ana>>,
     <<ISO(AddDays(r, 1)), V_1234_56, C_Ana>>}

RowLists(S, n) == UNION {[1..k -> S] : k \in 0..n}

LedgerSheets(r) ==
    {MkSheet(H_full, ts) : ts \in RowLists(LedgerRows(r), MaxRows)}
    \cup {MkSheet(h, <<<<DMY(r), V_100, C_Ana>>, <<D_bad, V_bad, C_blank>>>>) :
            h \in BadHeaders}
    \cup {MkSheet(H_reordered,
                   <<<<D_empty, V_empty, C_empty>>, <<ISO(r), V_prefixed, C_Davi>>>>)}

InitLedger ==
    /\ InitCommon
    /\ ref \in LedgerRefs
    /\ sheet \in LedgerSheets(ref)

SpecLedger == InitLedger /\ [][Next]_vars

\* Ranking family: one reference date; a sheet has one optional row for each
\* of NumSlots days (or customers) with an amount of 100 or 300, next to
\* fixed rows: two more days (or customers), generic and blank customers, and
\* rows outside the window.
NumSlots == 5
TopRef == Day(2025, 3, 15)

SlotAmounts == <<V_empty, V_100, V_300>>
SlotClientes == <<C_Ana, C_Bia, C_Caio, C_Davi, C_Eva, C_Fabio, C_Gil,
                  C_Ana, C_Bia, C_Caio>>

\* the rows of the slots with a nonzero choice, in descending slot order
RECURSIVE SlotRows(_, _, _)
SlotRows(f, n, kind) ==
    IF n = 0 THEN <<>>
    ELSE (IF f[n] = 1 THEN <<>>
          ELSE <<IF kind = "days"
                 THEN <<DMY(Day(2025, 3, n)), SlotAmounts[f[n]], C_Ana>>
                 ELSE <<ISO(Day(2025, 3, 3 + (n % 2))), SlotAmounts[f[n]],
                        SlotClientes[n]>>>>)
         \o SlotRows(f, n - 1, kind)

FixedDayRows ==
    <<<<DMY(Day(2025, 3, 2)), V_100, C_CF_loja>>,
      <<DMY(Day(2025, 3, 10)), V_150, C_Ana>>,
      <<DMY(Day(2025, 3, 11)), V_50, C_Ana>>,
      <<DMY(Day(2025, 3, 20)), V_300, C_Ana>>,
      <<DMY(Day(2025, 2, 10)), V_300, C_Ana>>>>

FixedClienteRows ==
    <<<<DMY(Day(2025, 3, 3)), V_1234_56, C_CF_loja>>,
      <<DMY(Day(2025, 3, 4)), V_300, C_CF_upper>>,
      <<DMY(Day(2025, 3, 4)), V_300, C_blank>>,
      <<DMY(Day(2025, 3, 5)), V_100, C_empty>>,
      <<DMY(Day(2025, 3, 5)), V_150, C_Consumidor>>,
      <<DMY(Day(2025, 3, 5)), V_50, C_Gil>>,
      <<DMY(Day(2025, 3, 16)), V_300, C_Eva>>>>

TopSheets ==
    {MkSheet(H_full, SlotRows(f, NumSlots, "days") \o FixedDayRows) :
        f \in [1..NumSlots -> 1..3]}
    \cup {MkSheet(H_full, FixedClienteRows \o SlotRows(f, NumSlots, "clientes")) :
        f \in [1..NumSlots -> 1..3]}
    \cup {MkSheet(H_noCliente, FixedDayRows)}

InitTop ==
    /\ InitCommon
    /\ ref = TopRef
    /\ sheet \in TopSheets

SpecTop == InitTop /\ [][Next]_vars

\* Formatting family: an amount in cents is formatted by to_brl and the text
\* is read back as the monetary cell of a sheet.
BrlValues ==
    (0 .. MaxBrlSmall)
    \cup {99, 100, 101, 1000, 99999, 100000, 123456, 100000000, -1, -123456}

InitBrl ==
    /\ pc = "format"
    /\ ref = Day(2025, 3, 15)
    /\ sheet = MkSheet(H_full, <<>>)
    /\ df = <<>>
    /\ error = NoError
    /\ loc = <<>>
    /\ top_dias = <<>>
    /\ top_clientes = <<>>
    /\ fn_in \in BrlValues
    /\ fn_txt = <<>>
    /\ fn_out = 0

FormatBrl ==
    /\ pc = "format"
    /\ fn_txt' = to_brl(fn_in)
    /\ pc' = "parse"
    /\ UNCHANGED <<ref, sheet, df, error, loc, top_dias, top_clientes, fn_in, fn_out>>

LoadValor ==
    /\ pc = "parse"
    /\ fn_out' = parse_valor(fn_txt)
    /\ pc' = "parsed"
    /\ UNCHANGED <<ref, sheet, df, error, loc, top_dias, top_clientes, fn_in, fn_txt>>

NextBrl == FormatBrl \/ LoadValor

SpecBrl == InitBrl /\ [][NextBrl]_vars

(***************************************************************************)
(* Properties                                                              *)
(***************************************************************************)
IsDate(x) == ValidDate(x.year, x.month, x.day)

\* the sum of the amounts of the rows with an index in S
RECURSIVE SumIdx(_, _)
SumIdx(rows, S) ==
    IF S = {} THEN 0
    ELSE LET i == CHOOSE k \in S : TRUE
         IN  rows[i].valor + SumIdx(rows, S \ {i})

OnDay(rows, d) == {i \in DOMAIN rows : rows[i].data = d}

InWindow(rows, lo, hi) ==
    {i \in DOMAIN rows :
        toordinal(lo) <= toordinal(rows[i].data)
        /\ toordinal(rows[i].data) <= toordinal(hi)}

\* r is the percent change of a against the base b
PctRule(r, a, b) ==
    IF b = 0 THEN (IF a = 0 THEN r = <<>> ELSE r = <<100, 1>>)
    ELSE /\ Len(r) = 2
         /\ r[2] > 0
         /\ r[1] * b = 100 * (a - b) * r[2]
         /\ \A g \in 2..r[2] : ~(r[1] % g = 0 /\ r[2] % g = 0)

\* C1: for every reference date R the three month windows are
\* [first of R's month, R], [first of the preceding calendar month, that day
\* + (R.day - 1) days] and [first of R's month a year earlier, that day +
\* (R.day - 1) days], each of exactly R.day days.
Thm_C1_MonthWindows ==
    pc = "done" =>
        LET P == IF ref.month = 1 THEN Day(ref.year - 1, 12, 1)
                 ELSE Day(ref.year, ref.month - 1, 1)
            Y == Day(ref.year - 1, ref.month, 1)
        IN  /\ loc.ini_mes = Day(ref.year, ref.month, 1)
            /\ loc.fim_atual = ref
            /\ loc.ini_mes_ant = P
            /\ IsDate(loc.fim_mes_ant)
            /\ toordinal(loc.fim_mes_ant) = toordinal(P) + (ref.day - 1)
            /\ loc.ini_mes_ano_ant = Y
            /\ IsDate(loc.fim_mes_ano_ant)
            /\ toordinal(loc.fim_mes_ano_ant) = toordinal(Y) + (ref.day - 1)
            /\ toordinal(loc.fim_atual) - toordinal(loc.ini_mes) + 1 = ref.day
            /\ toordinal(loc.fim_mes_ant) - toordinal(loc.ini_mes_ant) + 1 = ref.day
            /\ toordinal(loc.fim_mes_ano_ant) - toordinal(loc.ini_mes_ano_ant) + 1
                   = ref.day
            /\ (ref = Day(2025, 3, 15) =>
                   /\ loc.ini_mes = Day(2025, 3, 1) /\ loc.fim_atual = Day(2025, 3, 15)
                   /\ loc.ini_mes_ant = Day(2025, 2, 1)
                   /\ loc.fim_mes_ant = Day(2025, 2, 15)
                   /\ loc.ini_mes_ano_ant = Day(2024, 3, 1)
                   /\ loc.fim_mes_ano_ant = Day(2024, 3, 15))
            /\ loc.v_mes_atual
                   = SumIdx(df, InWindow(df, loc.ini_mes, loc.fim_atual))
            /\ loc.v_mes_ant_proporcional
                   = SumIdx(df, InWindow(df, P, loc.fim_mes_ant))
            /\ loc.v_mes_ano_ant
                   = SumIdx(df, InWindow(df, Y, loc.fim_mes_ano_ant))

\* a January reference date: the preceding month is December of the year before
Wit_C1_JanuaryRollover ==
    /\ pc = "done"
    /\ ref.month = 1 /\ ref.day = 15
    /\ loc.ini_mes_ant = Day(ref.year - 1, 12, 1)
    /\ loc.fim_mes_ant = Day(ref.year - 1, 12, 15)
    /\ loc.fim_mes_ano_ant = Day(ref.year - 1, 1, 15)
    /\ loc.v_mes_atual = 10000

\* C3: safe_last_year(R) is the same month and day a year earlier, 28 February
\* when R is 29 February; the second reference point is the day after it, and
\* each of the two has its own sum and its own percent change.
Thm_C3_SafeLastYear ==
    pc = "done" =>
        /\ loc.ano_ant # ValueError
        /\ IsDate(loc.ano_ant)
        /\ loc.ano_ant.year = ref.year - 1
        /\ loc.ano_ant.month = ref.month
        /\ IF ref.month = 2 /\ ref.day = 29
           THEN loc.ano_ant.day = 28
           ELSE loc.ano_ant.day = ref.day
        /\ IsDate(loc.ano_ant_dia_seguinte)
        /\ toordinal(loc.ano_ant_dia_seguinte) = toordinal(loc.ano_ant) + 1
        /\ loc.v_ano_ant = SumIdx(df, OnDay(df, loc.ano_ant))
        /\ loc.v_ano_ant_dia_seguinte
               = SumIdx(df, OnDay(df, loc.ano_ant_dia_seguinte))
        /\ PctRule(loc.pct_ano, loc.v_hoje, loc.v_ano_ant)
        /\ PctRule(loc.pct_ano_dia_seguinte, loc.v_hoje,
                   loc.v_ano_ant_dia_seguinte)

\* 29 February: the day a year earlier is 28 February, its sales are counted
\* there and not on the day after
Wit_C3_LeapDay ==
    /\ pc = "done"
    /\ ref.month = 2 /\ ref.day = 29
    /\ loc.ano_ant = Day(ref.year - 1, 2, 28)
    /\ loc.ano_ant_dia_seguinte = Day(ref.year - 1, 3, 1)
    /\ loc.v_ano_ant = 15000
    /\ loc.v_ano_ant_dia_seguinte = 0

\* C10: the prior-month window ends before the first day of R's month, the
\* year-over-year window ends inside R's month of the year before, and no
\* ledger row lies in both the current and the prior-month window.
Claim_C10_WindowsInsideMonth ==
    pc = "done" =>
        /\ toordinal(loc.fim_mes_ant) < toordinal(loc.ini_mes)
        /\ loc.fim_mes_ano_ant.year = ref.year - 1
        /\ loc.fim_mes_ano_ant.month = ref.month
        /\ InWindow(df, loc.ini_mes, loc.fim_atual)
               \cap InWindow(df, loc.ini_mes_ant, loc.fim_mes_ant) = {}

\* C2: pct is null for 0 against 0, exactly 100 for a nonzero value against a
\* zero base whatever its sign, and (current / base - 1) * 100 otherwise; all
\* five comparisons of the dashboard follow this one rule.
Thm_C2_PctRule ==
    pc = "done" =>
        /\ PctRule(loc.pct_dia, loc.v_hoje, loc.v_ontem)
        /\ PctRule(loc.pct_ano, loc.v_hoje, loc.v_ano_ant)
        /\ PctRule(loc.pct_ano_dia_seguinte, loc.v_hoje,
                   loc.v_ano_ant_dia_seguinte)
        /\ PctRule(loc.pct_mes, loc.v_mes_atual, loc.v_mes_ant_proporcional)
        /\ PctRule(loc.pct_mes_ano_ant, loc.v_mes_atual, loc.v_mes_ano_ant)
        /\ (loc.v_hoje = 0 /\ loc.v_ontem = 0 => loc.pct_dia = <<>>)
        /\ (loc.v_hoje = 10000 /\ loc.v_ontem = 0 => loc.pct_dia = <<100, 1>>)
        /\ (loc.v_hoje = 15000 /\ loc.v_ontem = 10000 => loc.pct_dia = <<50, 1>>)
        /\ (loc.v_hoje = 5000 /\ loc.v_ontem = 10000 => loc.pct_dia = <<-50, 1>>)
        /\ (loc.v_hoje < 0 /\ loc.v_ano_ant = 0 => loc.pct_ano = <<100, 1>>)

\* a return of 50.00 today against nothing yesterday and nothing a year ago,
\* and a month to date of -50.00 against 100.00 in the prior window
Wit_C2_NegativeOverZero ==
    /\ pc = "done"
    /\ loc.v_hoje = -5000 /\ loc.v_ontem = 0 /\ loc.pct_dia = <<100, 1>>
    /\ loc.v_ano_ant = 0 /\ loc.pct_ano = <<100, 1>>
    /\ loc.v_mes_ant_proporcional = 10000 /\ loc.pct_mes = <<-150, 1>>

\* C4: each day value is the sum of the amounts of exactly the rows of that
\* day, each window value the sum over exactly the rows inside the inclusive
\* window; rows of one date are all counted.
Thm_C4_Sums ==
    pc = "done" =>
        /\ loc.v_hoje = SumIdx(df, OnDay(df, ref))
        /\ loc.v_ontem = SumIdx(df, OnDay(df, fromordinal(toordinal(ref) - 1)))
        /\ loc.v_ano_ant = SumIdx(df, OnDay(df, loc.ano_ant))
        /\ loc.v_ano_ant_dia_seguinte
               = SumIdx(df, OnDay(df, loc.ano_ant_dia_seguinte))
        /\ loc.v_mes_atual = SumIdx(df, InWindow(df, loc.ini_mes, loc.fim_atual))
        /\ loc.v_mes_ant_proporcional
               = SumIdx(df, InWindow(df, loc.ini_mes_ant, loc.fim_mes_ant))
        /\ loc.v_mes_ano_ant
               = SumIdx(df, InWindow(df, loc.ini_mes_ano_ant, loc.fim_mes_ano_ant))
        /\ \A i \in DOMAIN df :
               toordinal(df[i].data) > toordinal(ref)
                   => loc.v_mes_atual = SumIdx(df, InWindow(df, loc.ini_mes,
                                                   loc.fim_atual) \ {i})

\* two rows of 150.00 on the reference day and one row on the day after it
Wit_C4_SameDateTwice ==
    /\ pc = "done"
    /\ Len(df) = 3
    /\ Cardinality(OnDay(df, ref)) = 2
    /\ loc.v_hoje = 30000
    /\ loc.v_mes_atual = 30000
    /\ \E i \in DOMAIN df : toordinal(df[i].data) = toordinal(ref) + 1

\* the required columns a header lacks, after trimming the names
Trimmed(h) == {strip(h[i]) : i \in DOMAIN h}

\* C8: a header that lacks a required column (names trimmed) makes the load
\* fail before any row is converted, with an error naming the first missing
\* column in the order date, total, customer and listing the columns present.
Thm_C8_ColumnValidation ==
    /\ pc = "error" =>
           /\ df = <<>> /\ loc = <<>>
           /\ error.available = [i \in DOMAIN sheet.columns |->
                                    strip(sheet.columns[i])]
           /\ error.missing \in {COL_DATA, COL_VALOR, COL_CLIENTE}
           /\ error.missing \notin Trimmed(sheet.columns)
           /\ (error.missing = COL_VALOR => COL_DATA \in Trimmed(sheet.columns))
           /\ (error.missing = COL_CLIENTE =>
                  {COL_DATA, COL_VALOR} \subseteq Trimmed(sheet.columns))
    /\ pc = "done" =>
           /\ {COL_DATA, COL_VALOR, COL_CLIENTE} \subseteq Trimmed(sheet.columns)
           /\ error = NoError

\* date and total both absent: the date column is the one reported
Wit_C8_FirstMissing ==
    /\ pc = "error"
    /\ sheet.columns = H_noDataValor
    /\ Len(sheet.rows) = 2
    /\ error.missing = COL_DATA
    /\ error.available = <<COL_CLIENTE, <<"N", "F">>>>

\* the text of row i of the sheet under the column called name
Cell(i, name) ==
    sheet.rows[i][CHOOSE k \in DOMAIN sheet.columns :
                      strip(sheet.columns[k]) = name]

Parseable == {i \in DOMAIN sheet.rows : to_datetime(Cell(i, COL_DATA)) # NaT}

\* C9: with all required columns present the load does not fail and the
\* ledger is exactly the rows with a parseable date, in their multiplicity
\* and order, each with a valid date; an unparseable amount is kept as 0.
Thm_C9_LedgerRows ==
    /\ {COL_DATA, COL_VALOR, COL_CLIENTE} \subseteq Trimmed(sheet.columns)
           => pc # "error"
    /\ pc = "done" =>
           LET P == Parseable
           IN  /\ Len(df) = Cardinality(P)
               /\ \A k \in DOMAIN df :
                      \* the source row behind row k of the ledger
                      LET i == CHOOSE x \in P :
                                   Cardinality({j \in P : j <= x}) = k
                          date == Cell(i, COL_DATA)
                          total == Cell(i, COL_VALOR)
                      IN  /\ IsDate(df[k].data)
                          /\ date \in {DMY(df[k].data), ISO(df[k].data)}
                          /\ df[k].cliente = strip(Cell(i, COL_CLIENTE))
                          /\ (total \in {V_bad, V_empty} => df[k].valor = 0)
                          /\ (total = V_100 => df[k].valor = 10000)
                          /\ (total = V_50 => df[k].valor = 5000)
                          /\ (total = V_1234_56 => df[k].valor = 123456)
                          /\ (total = V_neg => df[k].valor = -5000)
               /\ \A i \in DOMAIN sheet.rows :
                      Cell(i, COL_DATA) \in {D_bad, D_empty} => i \notin P

\* a row with an impossible date between two good rows, the second of them
\* with an unusable amount
Wit_C9_DroppedAndZeroed ==
    /\ pc = "done"
    /\ Len(sheet.rows) = 3
    /\ Cell(1, COL_VALOR) = V_150
    /\ Cell(2, COL_DATA) = D_bad
    /\ Cell(3, COL_VALOR) = V_bad
    /\ Len(df) = 2
    /\ df[1].valor = 15000
    /\ df[2].valor = 0 /\ df[2].data = ref

\* the rows of the current month-to-date window
MonthRows == InWindow(df, Day(ref.year, ref.month, 1), ref)

Keys(t) == {t[i].key : i \in DOMAIN t}

Descending(t) == \A i, j \in DOMAIN t : i < j => t[i].valor >= t[j].valor

\* C5: the top days are the min(5, distinct dates) dates of the current window
\* with the largest sums, each with the sum of all its rows, in non-increasing
\* order, equal sums in grouping (date) order, also across the cut at 5.
Claim_C5_TopDaysStable ==
    pc = "done" =>
        LET dates == {df[i].data : i \in MonthRows}
            total(d) == SumIdx(df, OnDay(df, d))
        IN  /\ Len(top_dias) = Min(5, Cardinality(dates))
            /\ Keys(top_dias) \subseteq dates
            /\ Cardinality(Keys(top_dias)) = Len(top_dias)
            /\ \A i \in DOMAIN top_dias : top_dias[i].valor = total(top_dias[i].key)
            /\ Descending(top_dias)
            /\ \A d \in dates \ Keys(top_dias) :
                   \A i \in DOMAIN top_dias : total(d) <= top_dias[i].valor
            /\ \A i, j \in DOMAIN top_dias :
                   i < j /\ top_dias[i].valor = top_dias[j].valor
                       => toordinal(top_dias[i].key) < toordinal(top_dias[j].key)
            /\ \A d \in dates \ Keys(top_dias) :
                   \A i \in DOMAIN top_dias :
                       total(d) = top_dias[i].valor
                           => toordinal(top_dias[i].key) < toordinal(d)

\* the customer names left out of the ranking
Generic(c) == contains(upper(c), CONSUMIDOR_FINAL)

\* C6: rows of the current window with a blank customer or one containing
\* CONSUMIDOR FINAL in any case are left out of the customer ranking and still
\* counted in the month total and the top days; the other rows are grouped by
\* customer, summed, sorted descending and cut to 5.
Thm_C6_TopClientes ==
    pc = "done" =>
        LET kept == {i \in MonthRows :
                        strip(df[i].cliente) # <<>> /\ ~Generic(df[i].cliente)}
            names == {df[i].cliente : i \in kept}
            total(c) == SumIdx(df, {i \in MonthRows : df[i].cliente = c})
        IN  /\ Len(top_clientes) = Min(5, Cardinality(names))
            /\ Keys(top_clientes) \subseteq names
            /\ Cardinality(Keys(top_clientes)) = Len(top_clientes)
            /\ Keys(top_clientes) \cap
                   {<<>>, strip(C_CF_loja), strip(C_CF_upper)} = {}
            /\ \A i \in DOMAIN top_clientes :
                   top_clientes[i].valor = total(top_clientes[i].key)
            /\ Descending(top_clientes)
            /\ \A c \in names \ Keys(top_clientes) :
                   \A i \in DOMAIN top_clientes : total(c) <= top_clientes[i].valor
            /\ loc.v_mes_atual = SumIdx(df, MonthRows)
            /\ \A i \in DOMAIN top_dias :
                   top_dias[i].valor
                       = SumIdx(df, {k \in MonthRows : df[k].data = top_dias[i].key})

\* seven customers and three generic or blank rows in the window: five are
\* ranked, the generic row of 1,234.56 is in the month total and leads the
\* top days
Wit_C6_GenericExcluded ==
    /\ pc = "done"
    /\ Len(top_clientes) = 5
    /\ \E i \in MonthRows : df[i].cliente = strip(C_CF_loja) /\ df[i].valor = 123456
    /\ \E i \in MonthRows : df[i].cliente = <<>>
    /\ \E i \in MonthRows : df[i].cliente = C_Consumidor
    /\ Cardinality({df[i].cliente : i \in MonthRows}) = 10
    /\ loc.v_mes_atual > 123456 + 60000
    /\ top_dias[1].valor >= 123456
    /\ top_clientes[1].valor = 30000

\* C7: reading back the text to_brl produced for an amount of two decimals
\* gives that amount: the loader strips the currency prefix to_brl emits.
Claim_C7_ParseInvertsFormat ==
    pc = "parsed" => fn_out = fn_in

====
